---- MODULE Spec2Model ----
(***************************************************************************)
(* Transporter-Backend: the booking, rating and pickup-request handlers as *)
(* a state machine over the document store.                                *)
(*                                                                         *)
(* Every handler is an async coroutine: it may be suspended at each        *)
(* `await` on the store, and only there.  One action of the model is the   *)
(* code between two awaits together with the store call that ends it, so   *)
(* the interleavings of the model are those of the handlers.  A store call *)
(* that only reads data no handler writes (the driver's name, the freshly  *)
(* inserted document that is returned) is folded into the neighbouring     *)
(* step.                                                                   *)
(***************************************************************************)
EXTENDS Integers, Sequences, FiniteSets, Bags

\* ------------------------------------------------------------------ bounds
MaxBookings == 2
MaxRatings == 3
MaxPickups == 2
MaxCapacity == 2
MaxDiscounts == 1
MaxTime == 2
MaxTours == 3

\* --------------------------------------------------------------- universes
\* request slots: the requests the server is handling at the same time
Procs == {"p1", "p2"}
UserIds == {"u1", "u2"}
DriverIds == {"d1", "d2"}
\* a verified token payload: user_type and sub
Tokens == [user_type : {"user"}, sub : UserIds] \cup [user_type : {"driver"}, sub : DriverIds]
\* the principals of the concurrent specification
ConcTokens == {tk \in Tokens : tk.sub \in {"u1", "d1", "d2"}}
UserTokens == {tk \in Tokens : tk.user_type = "user"}
\* the one slot that handles requests in the sequential specifications
SeqProcs == {"p1"}
\* the ratings sent: 0 and 6 are refused by the validation
ScoreInputs == 0..6
\* the ratings sent in the concurrent specification
ConcScores == {2, 5}
\* booking ids sent to rate_driver: the last one does not exist
RatedBookingInputs == 1..(MaxRatings + 2)
DriverTokens == {tk \in Tokens : tk.user_type = "driver"}
\* one token of each kind
KindTokens == {tk \in Tokens : tk.sub \in {"u1", "d1"}}
\* the tokens sent to the read-only endpoints: none, a rejected one, one of
\* each kind for an account, one of each kind for no account
AuthTokens == {[user_type |-> "none", sub |-> "missing"],
               [user_type |-> "none", sub |-> "invalid"],
               [user_type |-> "user", sub |-> "u1"],
               [user_type |-> "driver", sub |-> "d1"],
               [user_type |-> "user", sub |-> "u9"],
               [user_type |-> "driver", sub |-> "d9"]}
\* request ids sent to the pickup endpoints: 0 is not a valid ObjectId
PickupIdInputs == 0..MaxPickups
PaymentTypes == {"cash", "card"}
\* the codes validate_discount_code is called with, and the codes stored
CodeInputs == {"save10", "SAVE10", "off5"}
StoredCodes == {"SAVE10", "off5"}
\* the emails registrations are sent with: one that is taken, one that is free
EmailInputs == {"e1", "e3"}
\* BookingCreate.number_of_people is a plain int
People == {1, 2}
\* BookingCreate.number_of_people is a plain int: any integer is accepted
PeopleInputs == {-1, 0, 1}
\* tour 1 is the published tour, tour 2 does not exist
TourIdInputs == {1, 2}
BookingIdInputs == 1..MaxBookings
NoId == 0

VARIABLES
    tours,      \* collection tours: seq of [driver_id, max_capacity, current_capacity]
    bookings,   \* collection bookings: seq of [tour_id, user_id, number_of_people, status]
    ratings,    \* collection ratings: bag of [driver_id, user_id, booking_id, rating]
    drivers,    \* collection drivers: driver id -> [rating2, total_trips]
    pickups,    \* collection pickup_requests: seq of [user_id, status, driver_id]
    released,   \* per booking: how many times cancel_booking gave its seats back
    emails,     \* collections users and drivers: the email of each account, in insert order
    discounts,  \* collection discounts: seq of [code, is_active, start_date, end_date]
    now,        \* datetime.utcnow()
    pc,         \* per slot: the await the handler is suspended at
    req,        \* per slot: the request being handled
    loc,        \* per slot: the handler's local variables
    resp        \* per slot: the response of the finished request

vars == <<tours, bookings, ratings, drivers, pickups, released, emails, discounts, now,
          pc, req, loc, resp>>
store == <<tours, bookings, ratings, drivers, pickups, released, emails, discounts, now>>

\* ----------------------------------------------------------------- records
NoReq == [op |-> "none", tok |-> [user_type |-> "user", sub |-> "u1"],
          tour_id |-> NoId, number_of_people |-> 0, payment_type |-> "cash",
          booking_id |-> NoId, driver_id |-> "d1", rating |-> 0,
          request_id |-> NoId, email |-> "none", code |-> "none"]
NoLoc == [status |-> "none", tour_id |-> NoId, number_of_people |-> 0,
          sum |-> 0, count |-> 0, now |-> 0, booked |-> {}]
\* driver_id of a pickup request no driver is assigned to
Null == "null"
\* code, detail, the id of the document returned and the list returned
NoResp == [code |-> 0, detail |-> "none", id |-> NoId, list |-> <<>>]
\* an HTTPException or a message: status code and detail
Response(c, d) == [NoResp EXCEPT !.code = c, !.detail = d]
\* a document is returned: status code, what it is, its id
Answer(c, d, i) == [NoResp EXCEPT !.code = c, !.detail = d, !.id = i]

Idle(p) == pc[p] = "idle"
InFlight(p) == pc[p] # "idle"

\* the handler returns or raises: the slot answers and is free again
Finish(p, r) ==
    /\ pc' = [pc EXCEPT ![p] = "idle"]
    /\ resp' = [resp EXCEPT ![p] = r]
    /\ req' = [req EXCEPT ![p] = NoReq]
    /\ loc' = [loc EXCEPT ![p] = NoLoc]

\* the handler suspends at its next await, its locals being l
Goto(p, label, l) ==
    /\ pc' = [pc EXCEPT ![p] = label]
    /\ loc' = [loc EXCEPT ![p] = l]
    /\ UNCHANGED <<req, resp>>

\* --------------------------------------------------- authentication (deps)
\* a request without an Authorization header, and one whose token verify_token
\* rejects (payload None)
NoToken == [user_type |-> "none", sub |-> "missing"]
BadToken == [user_type |-> "none", sub |-> "invalid"]

\* get_current_user_or_driver: 401 when verify_token returns None
InvalidToken == Response(401, "invalid token")

\* HTTPBearer()(request) with auto_error: without the header it raises by
\* itself, 403 or 401 depending on the FastAPI release; otherwise the
\* dependency goes on and answers rest
HTTPBearerCall(tok, rest) ==
    IF tok = NoToken
      THEN {Response(403, "not authenticated"), Response(401, "not authenticated")}
      ELSE {rest}

\* mutant: every verified token passes, whatever its kind
BookingsCurrentUserAnyKind(tok) ==
    IF tok = BadToken THEN InvalidToken ELSE Response(200, "ok")

\* bookings.get_current_user: the payload must be of kind user, the account
\* must exist
BookingsCurrentUser(tok) ==
    IF tok = BadToken THEN InvalidToken
    ELSE IF tok.user_type # "user" THEN Response(403, "user role required")
    ELSE IF tok.sub \notin UserIds THEN Response(404, "user not found")
    ELSE Response(200, "ok")

BookingsCurrentDriver(tok) ==
    IF tok = BadToken THEN InvalidToken
    ELSE IF tok.user_type # "driver" THEN Response(403, "driver role required")
    ELSE IF tok.sub \notin DriverIds THEN Response(404, "driver not found")
    ELSE Response(200, "ok")

\* pickup.get_current_user / get_current_driver (also used by tours and by
\* rate_driver)
PickupCurrentUser(tok) ==
    IF tok.user_type # "user" THEN Response(403, "user role required")
    ELSE IF tok.sub \notin UserIds THEN Response(404, "user not found")
    ELSE Response(200, "ok")

PickupCurrentDriver(tok) ==
    IF tok.user_type # "driver" THEN Response(403, "driver role required")
    ELSE IF tok.sub \notin DriverIds THEN Response(404, "driver not found")
    ELSE Response(200, "ok")

\* users.get_current_user: every failure is a 401
UsersCurrentUser(tok) ==
    IF tok = BadToken \/ tok.user_type # "user" THEN InvalidToken
    ELSE IF tok.sub \notin UserIds THEN Response(401, "user not found")
    ELSE Response(200, "ok")

\* drivers.get_current_driver: reads the header itself
DriversCurrentDriver(tok) ==
    IF tok = NoToken THEN Response(401, "credentials not provided")
    ELSE IF tok = BadToken \/ tok.user_type # "driver"
      THEN Response(403, "invalid token or not a driver")
    ELSE IF tok.sub \notin DriverIds THEN Response(404, "driver not found")
    ELSE Response(200, "ok")

\* a request arrives at a free slot and its dependency runs
Arrive(p, r, auth, first) ==
    /\ IF auth.code = 200
         THEN /\ pc' = [pc EXCEPT ![p] = first]
              /\ req' = [req EXCEPT ![p] = r]
              /\ resp' = [resp EXCEPT ![p] = NoResp]
              /\ loc' = [loc EXCEPT ![p] = NoLoc]
         ELSE Finish(p, auth)
    /\ UNCHANGED store

\* the requests of kind op that are being handled
NumInFlight(op) == Cardinality({q \in Procs : InFlight(q) /\ req[q].op = op})

\* ---------------------------------------------------------------- bookings
TourExists(t) == t \in 1..Len(tours)
BookingExists(b) == b \in 1..Len(bookings)

\* mutant: the check refuses a booking that fills the tour exactly
CapacityExceededOffByOne(tour, n) == tour.current_capacity + n >= tour.max_capacity

\* the capacity check of create_booking
CapacityExceeded(tour, n) == tour.current_capacity + n > tour.max_capacity

\* mutant: every booking starts as paid
InitialStatusAlwaysPaid(payment_type) == "paid"

\* the status a new booking starts in
InitialStatus(payment_type) == IF payment_type = "cash" THEN "upcoming" ELSE "paid"

\* update_one(tours, {$inc: {current_capacity: d}})
IncCapacity(t, d) ==
    IF TourExists(t)
      THEN [tours EXCEPT ![t].current_capacity = @ + d]
      ELSE tours

StartCreateBooking(p, tok, t, n, pay) ==
    /\ Idle(p)
    /\ Len(bookings) + NumInFlight("create_booking") < MaxBookings
    /\ Arrive(p, [NoReq EXCEPT !.op = "create_booking", !.tok = tok, !.tour_id = t,
                               !.number_of_people = n, !.payment_type = pay],
              BookingsCurrentUser(tok), "cb_find")

\* mutant: the capacity check also counts the seats of the requests that
\* passed the check and have not incremented yet
CreateBookingFindReserving(p) ==
    /\ pc[p] = "cb_find"
    /\ LET t == req[p].tour_id
           held == IF \E q \in Procs : q # p /\ pc[q] \in {"cb_insert", "cb_inc"}
                                        /\ req[q].tour_id = t
                     THEN 1 ELSE 0
       IN IF ~TourExists(t)
            THEN Finish(p, Response(404, "tour not found"))
            ELSE IF CapacityExceeded(tours[t], req[p].number_of_people + held)
                   THEN Finish(p, Response(400, "not enough capacity"))
                   ELSE Goto(p, "cb_insert", NoLoc)
    /\ UNCHANGED store

\* find_one(tours), then the capacity check on the document read
CreateBookingFind(p) ==
    /\ pc[p] = "cb_find"
    /\ IF ~TourExists(req[p].tour_id)
         THEN Finish(p, Response(404, "tour not found"))
         ELSE IF CapacityExceeded(tours[req[p].tour_id], req[p].number_of_people)
                THEN Finish(p, Response(400, "not enough capacity"))
                ELSE Goto(p, "cb_insert", NoLoc)
    /\ UNCHANGED store

\* insert_one(bookings)
CreateBookingInsert(p) ==
    /\ pc[p] = "cb_insert"
    /\ bookings' = Append(bookings, [tour_id |-> req[p].tour_id,
                                     user_id |-> req[p].tok.sub,
                                     number_of_people |-> req[p].number_of_people,
                                     status |-> InitialStatus(req[p].payment_type)])
    /\ released' = Append(released, 0)
    /\ Goto(p, "cb_inc", NoLoc)
    /\ UNCHANGED <<tours, ratings, drivers, pickups, emails, discounts, now>>

\* update_one(tours, $inc current_capacity by number_of_people)
CreateBookingInc(p) ==
    /\ pc[p] = "cb_inc"
    /\ tours' = IncCapacity(req[p].tour_id, req[p].number_of_people)
    /\ Finish(p, Response(200, "booking"))
    /\ UNCHANGED <<bookings, ratings, drivers, pickups, released, emails, discounts, now>>

StartCancelBooking(p, tok, b) ==
    /\ Idle(p)
    /\ Arrive(p, [NoReq EXCEPT !.op = "cancel_booking", !.tok = tok, !.booking_id = b],
              BookingsCurrentUser(tok), "cn_find")

\* the statuses cancel_booking and complete_booking accept
Cancellable(status) == status \in {"paid", "upcoming"}

\* mutant: the booking is looked up by _id alone
CancelBookingFindAnyUser(p) ==
    /\ pc[p] = "cn_find"
    /\ LET b == req[p].booking_id IN
       IF ~BookingExists(b)
         THEN Finish(p, Response(404, "booking not found or access denied"))
         ELSE IF bookings[b].status = "completed"
           THEN Finish(p, Response(400, "already completed"))
           ELSE IF ~Cancellable(bookings[b].status)
             THEN Finish(p, Response(400, "cannot cancel"))
             ELSE Goto(p, "cn_set", [NoLoc EXCEPT
                                !.status = bookings[b].status,
                                !.tour_id = bookings[b].tour_id,
                                !.number_of_people = bookings[b].number_of_people])
    /\ UNCHANGED store

\* find_one(bookings, {_id, user_id}), then the status checks
CancelBookingFind(p) ==
    /\ pc[p] = "cn_find"
    /\ LET b == req[p].booking_id IN
       IF ~BookingExists(b) \/ bookings[b].user_id # req[p].tok.sub
         THEN Finish(p, Response(404, "booking not found or access denied"))
         ELSE IF bookings[b].status = "completed"
           THEN Finish(p, Response(400, "already completed"))
           ELSE IF ~Cancellable(bookings[b].status)
             THEN Finish(p, Response(400, "cannot cancel"))
             ELSE Goto(p, "cn_set", [NoLoc EXCEPT
                                !.status = bookings[b].status,
                                !.tour_id = bookings[b].tour_id,
                                !.number_of_people = bookings[b].number_of_people])
    /\ UNCHANGED store

\* update_one(bookings, {_id}, $set status cancelled)
CancelBookingSet(p) ==
    /\ pc[p] = "cn_set"
    /\ bookings' = [bookings EXCEPT ![req[p].booking_id].status = "cancelled"]
    /\ Goto(p, "cn_dec", loc[p])
    /\ UNCHANGED <<tours, ratings, drivers, pickups, released, emails, discounts, now>>

\* mutant: the cancel answers without giving the seats back
CancelBookingDecKeepsSeats(p) ==
    /\ pc[p] = "cn_dec"
    /\ released' = [released EXCEPT ![req[p].booking_id] = @ + 1]
    /\ Finish(p, Response(200, "booking cancelled"))
    /\ UNCHANGED <<tours, bookings, ratings, drivers, pickups, emails, discounts, now>>

\* update_one(tours, $inc current_capacity by -number_of_people)
CancelBookingDec(p) ==
    /\ pc[p] = "cn_dec"
    /\ tours' = IncCapacity(loc[p].tour_id, -loc[p].number_of_people)
    /\ released' = [released EXCEPT ![req[p].booking_id] = @ + 1]
    /\ Finish(p, Response(200, "booking cancelled"))
    /\ UNCHANGED <<bookings, ratings, drivers, pickups, emails, discounts, now>>

StartCompleteBooking(p, tok, b) ==
    /\ Idle(p)
    /\ Arrive(p, [NoReq EXCEPT !.op = "complete_booking", !.tok = tok, !.booking_id = b],
              BookingsCurrentDriver(tok), "cp_find")

\* mutant: the driver of the tour is not checked
CompleteBookingFindAnyDriver(p) ==
    /\ pc[p] = "cp_find"
    /\ LET b == req[p].booking_id IN
       IF ~BookingExists(b)
         THEN Finish(p, Response(404, "booking not found"))
         ELSE IF ~Cancellable(bookings[b].status)
           THEN Finish(p, Response(400, "cannot complete"))
           ELSE Goto(p, "cp_set", [NoLoc EXCEPT !.status = bookings[b].status,
                                                !.tour_id = bookings[b].tour_id])
    /\ UNCHANGED store

\* find_one(bookings, {_id}), find_one(tours) (a tour's driver_id is never
\* written), the driver check, then the status check on the booking read
CompleteBookingFind(p) ==
    /\ pc[p] = "cp_find"
    /\ LET b == req[p].booking_id IN
       IF ~BookingExists(b)
         THEN Finish(p, Response(404, "booking not found"))
         ELSE IF ~TourExists(bookings[b].tour_id)
                 \/ tours[bookings[b].tour_id].driver_id # req[p].tok.sub
           THEN Finish(p, Response(403, "not the driver for this tour"))
           ELSE IF ~Cancellable(bookings[b].status)
             THEN Finish(p, Response(400, "cannot complete"))
             ELSE Goto(p, "cp_set", [NoLoc EXCEPT !.status = bookings[b].status,
                                                  !.tour_id = bookings[b].tour_id])
    /\ UNCHANGED store

\* update_one(bookings, {_id}, $set status completed)
CompleteBookingSet(p) ==
    /\ pc[p] = "cp_set"
    /\ bookings' = [bookings EXCEPT ![req[p].booking_id].status = "completed"]
    /\ Finish(p, Response(200, "booking completed"))
    /\ UNCHANGED <<tours, ratings, drivers, pickups, released, emails, discounts, now>>

\* ----------------------------------------------------------------- ratings
\* mutant: the upper limit of the field is 6
ValidRatingUpToSix(score) == score > 0 /\ score <= 6

\* RatingCreate.rating: Field(gt=0, le=5)
ValidRating(score) == score > 0 /\ score <= 5

\* the dependency of rate_driver, then the validation of the body
RateDriverAdmission(tok, score) ==
    IF PickupCurrentUser(tok).code # 200 THEN PickupCurrentUser(tok)
    ELSE IF ~ValidRating(score) THEN Response(422, "validation error")
    ELSE Response(200, "ok")

\* the documents of ratings matching {driver_id: d}
RatingsOf(d) == {r \in BagToSet(ratings) : r.driver_id = d}

\* the documents of ratings matching {booking_id: b}
RatingsFor(b) == {r \in BagToSet(ratings) : r.booking_id = b}

RECURSIVE SumRatings(_, _)
\* $group: the sum of rating over the documents S of the bag B
SumRatings(S, B) ==
    IF S = {} THEN 0
    ELSE LET r == CHOOSE x \in S : TRUE
         IN r.rating * CopiesIn(r, B) + SumRatings(S \ {r}, B)

RECURSIVE CountRatings(_, _)
\* $group: {$sum: 1} over the documents S of the bag B
CountRatings(S, B) ==
    IF S = {} THEN 0
    ELSE LET r == CHOOSE x \in S : TRUE
         IN CopiesIn(r, B) + CountRatings(S \ {r}, B)

\* mutant: the doubled average is truncated
RoundTruncating(num, den) == num \div den

\* Python round(num / den): to the nearest integer, a tie to the even one
Round(num, den) ==
    LET q == num \div den
        r == num % den
    IN IF 2 * r < den THEN q
       ELSE IF 2 * r > den THEN q + 1
       ELSE IF q % 2 = 0 THEN q ELSE q + 1

\* round(averageRating * 2) / 2, kept in half stars (twice the stored rating)
RoundedRating2(sum, count) == Round(2 * sum, count)

StartRateDriver(p, tok, d, b, score) ==
    /\ Idle(p)
    /\ BagCardinality(ratings) + NumInFlight("rate_driver") < MaxRatings
    /\ Arrive(p, [NoReq EXCEPT !.op = "rate_driver", !.tok = tok, !.driver_id = d,
                               !.booking_id = b, !.rating = score],
              RateDriverAdmission(tok, score), "rd_find")

\* steps 1-4: find_one(bookings), the owner check, find_one(tours) (a tour's
\* driver_id is never written), the driver check, the status check on the
\* booking read
RateDriverFind(p) ==
    /\ pc[p] = "rd_find"
    /\ LET b == req[p].booking_id IN
       IF ~BookingExists(b)
         THEN Finish(p, Response(404, "booking not found"))
         ELSE IF bookings[b].user_id # req[p].tok.sub
           THEN Finish(p, Response(403, "only your own bookings"))
           ELSE IF ~TourExists(bookings[b].tour_id)
                   \/ tours[bookings[b].tour_id].driver_id # req[p].driver_id
             THEN Finish(p, Response(400, "driver does not match"))
             ELSE IF bookings[b].status # "completed"
               THEN Finish(p, Response(400, "only completed rides"))
               ELSE Goto(p, "rd_exist", NoLoc)
    /\ UNCHANGED store

\* mutant: the lookup of an existing rating is skipped
RateDriverExistUnchecked(p) ==
    /\ pc[p] = "rd_exist"
    /\ Goto(p, "rd_insert", NoLoc)
    /\ UNCHANGED store

\* step 5: find_one(ratings, {booking_id})
RateDriverExist(p) ==
    /\ pc[p] = "rd_exist"
    /\ IF RatingsFor(req[p].booking_id) # {}
         THEN Finish(p, Response(400, "already rated"))
         ELSE Goto(p, "rd_insert", NoLoc)
    /\ UNCHANGED store

\* step 6: insert_one(ratings)
RateDriverInsert(p) ==
    /\ pc[p] = "rd_insert"
    /\ ratings' = ratings (+) SetToBag({[driver_id |-> req[p].driver_id,
                                         user_id |-> req[p].tok.sub,
                                         booking_id |-> req[p].booking_id,
                                         rating |-> req[p].rating]})
    /\ Goto(p, "rd_agg", NoLoc)
    /\ UNCHANGED <<tours, bookings, drivers, pickups, released, emails, discounts, now>>

\* update_driver_average_rating: aggregate($match driver_id, $group)
RateDriverAggregate(p) ==
    /\ pc[p] = "rd_agg"
    /\ LET S == RatingsOf(req[p].driver_id) IN
       Goto(p, "rd_update", [NoLoc EXCEPT !.sum = SumRatings(S, ratings),
                                          !.count = CountRatings(S, ratings)])
    /\ UNCHANGED store

\* update_driver_average_rating: update_one(drivers, $set rating, total_trips)
\* when the aggregation returned a group
RateDriverUpdate(p) ==
    /\ pc[p] = "rd_update"
    /\ drivers' = IF loc[p].count > 0 /\ req[p].driver_id \in DriverIds
                    THEN [drivers EXCEPT ![req[p].driver_id] =
                            [rating2 |-> RoundedRating2(loc[p].sum, loc[p].count),
                             total_trips |-> loc[p].count]]
                    ELSE drivers
    /\ Finish(p, Response(201, "rating submitted"))
    /\ UNCHANGED <<tours, bookings, ratings, pickups, released, emails, discounts, now>>

\* --------------------------------------------------------- pickup requests
PickupExists(r) == r \in 1..Len(pickups)

\* ObjectId.is_valid(request_id)
ValidObjectId(r) == r # 0

\* PickupStatusUpdateResponse: _id and status of the document returned
PickupResponse(r, doc) == Answer(200, doc.status, r)

StartCreatePickup(p, tok) ==
    /\ Idle(p)
    /\ Len(pickups) + NumInFlight("create_pickup_request") < MaxPickups
    /\ Arrive(p, [NoReq EXCEPT !.op = "create_pickup_request", !.tok = tok],
              PickupCurrentUser(tok), "pr_insert")

\* insert_one(pickup_requests) with status pending and driver_id None
CreatePickupInsert(p) ==
    /\ pc[p] = "pr_insert"
    /\ LET doc == [user_id |-> req[p].tok.sub, status |-> "pending", driver_id |-> Null] IN
       /\ pickups' = Append(pickups, doc)
       /\ Finish(p, PickupResponse(Len(pickups) + 1, doc))
    /\ UNCHANGED <<tours, bookings, ratings, drivers, released, emails, discounts, now>>

StartUserCancel(p, tok, r) ==
    /\ Idle(p)
    /\ Arrive(p, [NoReq EXCEPT !.op = "user_cancel_request", !.tok = tok, !.request_id = r],
              PickupCurrentUser(tok), "uc_find")

\* find_one(pickup_requests, {_id}), then the owner and the status check
UserCancelFind(p) ==
    /\ pc[p] = "uc_find"
    /\ LET r == req[p].request_id IN
       IF ~ValidObjectId(r)
         THEN Finish(p, Response(400, "invalid request id"))
         ELSE IF ~PickupExists(r)
           THEN Finish(p, Response(404, "request not found"))
           ELSE IF pickups[r].user_id # req[p].tok.sub
             THEN Finish(p, Response(403, "not authorized to cancel"))
             ELSE IF pickups[r].status # "pending"
               THEN Finish(p, Response(400, "cannot cancel"))
               ELSE Goto(p, "uc_set", NoLoc)
    /\ UNCHANGED store

\* find_one_and_update({_id}, $set status cancelled)
UserCancelSet(p) ==
    /\ pc[p] = "uc_set"
    /\ LET r == req[p].request_id
           doc == [pickups[r] EXCEPT !.status = "cancelled"]
       IN /\ pickups' = [pickups EXCEPT ![r] = doc]
          /\ Finish(p, PickupResponse(r, doc))
    /\ UNCHANGED <<tours, bookings, ratings, drivers, released, emails, discounts, now>>

\* find_one_and_update(filter, update): the request r is updated by upd when
\* it exists and matches, all in one store operation
ConditionalUpdate(p, r, matches, upd, error) ==
    IF ~ValidObjectId(r)
      THEN /\ Finish(p, Response(400, "invalid request id"))
           /\ UNCHANGED pickups
      ELSE IF PickupExists(r) /\ matches
        THEN /\ pickups' = [pickups EXCEPT ![r] = upd]
             /\ Finish(p, PickupResponse(r, upd))
        ELSE /\ Finish(p, Response(404, error))
             /\ UNCHANGED pickups

StartAcceptPickup(p, tok, r) ==
    /\ Idle(p)
    /\ Arrive(p, [NoReq EXCEPT !.op = "accept_pickup_request", !.tok = tok, !.request_id = r],
              PickupCurrentDriver(tok), "pa_update")

\* mutant: the accept also takes over a request another driver accepted
AcceptPickupUpdateTakesOver(p) ==
    /\ pc[p] = "pa_update"
    /\ LET r == req[p].request_id IN
       ConditionalUpdate(p, r, pickups[r].status \in {"pending", "accepted"},
           [pickups[r] EXCEPT !.status = "accepted", !.driver_id = req[p].tok.sub],
           "not found or already handled")
    /\ UNCHANGED <<tours, bookings, ratings, drivers, released, emails, discounts, now>>

\* mutant: the accept does not require the request to be pending
AcceptPickupUpdateAnyStatus(p) ==
    /\ pc[p] = "pa_update"
    /\ LET r == req[p].request_id IN
       ConditionalUpdate(p, r, TRUE,
           [pickups[r] EXCEPT !.status = "accepted", !.driver_id = req[p].tok.sub],
           "not found or already handled")
    /\ UNCHANGED <<tours, bookings, ratings, drivers, released, emails, discounts, now>>

\* find_one_and_update({_id, status: pending}, $set status accepted, driver_id)
AcceptPickupUpdate(p) ==
    /\ pc[p] = "pa_update"
    /\ LET r == req[p].request_id IN
       ConditionalUpdate(p, r, pickups[r].status = "pending",
           [pickups[r] EXCEPT !.status = "accepted", !.driver_id = req[p].tok.sub],
           "not found or already handled")
    /\ UNCHANGED <<tours, bookings, ratings, drivers, released, emails, discounts, now>>

StartCancelPickup(p, tok, r) ==
    /\ Idle(p)
    /\ Arrive(p, [NoReq EXCEPT !.op = "cancel_pickup_request", !.tok = tok, !.request_id = r],
              PickupCurrentDriver(tok), "pc_update")

\* mutant: the query has no branch for a pending request
CancelPickupUpdateOnlyAccepted(p) ==
    /\ pc[p] = "pc_update"
    /\ LET r == req[p].request_id IN
       ConditionalUpdate(p, r,
           pickups[r].status = "accepted" /\ pickups[r].driver_id = req[p].tok.sub,
           [pickups[r] EXCEPT !.status = "pending", !.driver_id = Null],
           "not found or not authorized to cancel")
    /\ UNCHANGED <<tours, bookings, ratings, drivers, released, emails, discounts, now>>

\* mutant: an accepted request is re-opened for any driver
CancelPickupUpdateAnyDriver(p) ==
    /\ pc[p] = "pc_update"
    /\ LET r == req[p].request_id IN
       ConditionalUpdate(p, r, pickups[r].status \in {"pending", "accepted"},
           [pickups[r] EXCEPT !.status = "pending", !.driver_id = Null],
           "not found or not authorized to cancel")
    /\ UNCHANGED <<tours, bookings, ratings, drivers, released, emails, discounts, now>>

\* find_one_and_update({_id, $or: [{status: pending},
\* {status: accepted, driver_id}]}, $set status pending, driver_id None)
CancelPickupUpdate(p) ==
    /\ pc[p] = "pc_update"
    /\ LET r == req[p].request_id IN
       ConditionalUpdate(p, r,
           \/ pickups[r].status = "pending"
           \/ pickups[r].status = "accepted" /\ pickups[r].driver_id = req[p].tok.sub,
           [pickups[r] EXCEPT !.status = "pending", !.driver_id = Null],
           "not found or not authorized to cancel")
    /\ UNCHANGED <<tours, bookings, ratings, drivers, released, emails, discounts, now>>

StartCompletePickup(p, tok, r) ==
    /\ Idle(p)
    /\ Arrive(p, [NoReq EXCEPT !.op = "complete_pickup_request", !.tok = tok, !.request_id = r],
              PickupCurrentDriver(tok), "pm_update")

\* mutant: an accepted request is completed for any driver
CompletePickupUpdateAnyDriver(p) ==
    /\ pc[p] = "pm_update"
    /\ LET r == req[p].request_id IN
       ConditionalUpdate(p, r, pickups[r].status = "accepted",
           [pickups[r] EXCEPT !.status = "completed"],
           "not found, not assigned to you, or not accepted")
    /\ UNCHANGED <<tours, bookings, ratings, drivers, released, emails, discounts, now>>

\* find_one_and_update({_id, status: accepted, driver_id}, $set status completed)
CompletePickupUpdate(p) ==
    /\ pc[p] = "pm_update"
    /\ LET r == req[p].request_id IN
       ConditionalUpdate(p, r,
           pickups[r].status = "accepted" /\ pickups[r].driver_id = req[p].tok.sub,
           [pickups[r] EXCEPT !.status = "completed"],
           "not found, not assigned to you, or not accepted")
    /\ UNCHANGED <<tours, bookings, ratings, drivers, released, emails, discounts, now>>

\* --------------------------------------------------------------- tours
\* TourCreate.max_capacity as sent by the drivers
CapacityInputs == {1, MaxCapacity}

StartCreateTour(p, tok, cap) ==
    /\ Idle(p)
    /\ Arrive(p, [NoReq EXCEPT !.op = "create_tour", !.tok = tok, !.number_of_people = cap],
              PickupCurrentDriver(tok), "ct_insert")

\* insert_one(tours) with current_capacity 0, then the tour is read back
CreateTourInsert(p) ==
    /\ pc[p] = "ct_insert"
    /\ tours' = Append(tours, [driver_id |-> req[p].tok.sub,
                               max_capacity |-> req[p].number_of_people,
                               current_capacity |-> 0])
    /\ Finish(p, Answer(200, "tour", Len(tours) + 1))
    /\ UNCHANGED <<bookings, ratings, drivers, pickups, released, emails, discounts, now>>

\* created_at = utcnow() at the insert: the tours are stored in the order of
\* their creation
CreatedAt(t) == t

\* how $sort orders a missing or null field: before every number
NullKey == -1

\* driver_details.tour_count of the tour's joined driver: register_driver
\* inserts the driver without the field and no update sets it
TourCountKey(t) == NullKey

\* get_optional_current_user: the user of a valid user token, else None
OptionalUser(tok) == tok.user_type = "user" /\ tok.sub \in UserIds

\* find(bookings, {user_id, status $ne cancelled}): the tours already booked
BookedTourIds(u) ==
    {bookings[b].tour_id : b \in {c \in 1..Len(bookings) :
        bookings[c].user_id = u /\ bookings[c].status # "cancelled"}}

\* $match: status active (every tour is inserted active and stays so),
\* current_capacity < max_capacity, _id not among the booked ones; the
\* optional filters of the query string are not sent
MatchFilter(booked) ==
    {t \in 1..Len(tours) :
        tours[t].current_capacity < tours[t].max_capacity /\ t \notin booked}

\* $sort {driver_details.tour_count: 1, created_at: -1}: a comes before b
SortsBefore(a, b) ==
    IF TourCountKey(a) # TourCountKey(b)
      THEN TourCountKey(a) < TourCountKey(b)
      ELSE CreatedAt(a) > CreatedAt(b)

RECURSIVE SortTours(_)
\* the tours S in the order of $sort
SortTours(S) ==
    IF S = {} THEN <<>>
    ELSE LET first == CHOOSE a \in S : \A b \in S \ {a} : SortsBefore(a, b)
         IN <<first>> \o SortTours(S \ {first})

\* get_tours: the dependency finds the user, if there is one
StartGetTours(p, tok) ==
    /\ Idle(p)
    /\ pc' = [pc EXCEPT ![p] = IF OptionalUser(tok) THEN "gt_bookings" ELSE "gt_aggregate"]
    /\ req' = [req EXCEPT ![p] = [NoReq EXCEPT !.op = "get_tours", !.tok = tok]]
    /\ resp' = [resp EXCEPT ![p] = NoResp]
    /\ loc' = [loc EXCEPT ![p] = NoLoc]
    /\ UNCHANGED store

\* with a user: find(bookings) of the user
GetToursBookings(p) ==
    /\ pc[p] = "gt_bookings"
    /\ Goto(p, "gt_aggregate", [NoLoc EXCEPT !.booked = BookedTourIds(req[p].tok.sub)])
    /\ UNCHANGED store

\* aggregate(pipeline).to_list(100): match, join, sort, project
GetToursAggregate(p) ==
    /\ pc[p] = "gt_aggregate"
    /\ Finish(p, [Response(200, "tours") EXCEPT
                    !.list = SortTours(MatchFilter(loc[p].booked))])
    /\ UNCHANGED store

\* -------------------------------------------------------------- discounts
\* str.upper on the codes
Upper(code) ==
    CASE code = "save10" -> "SAVE10"
      [] code = "off5" -> "OFF5"
      [] OTHER -> code

\* the documents a discounts collection may hold
DiscountDocs == [code : StoredCodes, is_active : BOOLEAN,
                 start_date : 0..MaxTime, end_date : 0..MaxTime]

\* the query of validate_discount_code: code, is_active, start_date $lte q,
\* end_date $gte q
MatchesQuery(doc, code, q) ==
    /\ doc.code = code
    /\ doc.is_active
    /\ doc.start_date <= q
    /\ doc.end_date >= q

\* validate_discount_code takes no token; now = datetime.utcnow()
StartValidateDiscount(p, code) ==
    /\ Idle(p)
    /\ pc' = [pc EXCEPT ![p] = "vd_find"]
    /\ req' = [req EXCEPT ![p] = [NoReq EXCEPT !.op = "validate_discount_code", !.code = code]]
    /\ resp' = [resp EXCEPT ![p] = NoResp]
    /\ loc' = [loc EXCEPT ![p] = [NoLoc EXCEPT !.now = now]]
    /\ UNCHANGED store

\* mutant: the query does not ask for is_active
ValidateDiscountFindInactive(p) ==
    /\ pc[p] = "vd_find"
    /\ LET M == {i \in 1..Len(discounts) :
                    MatchesQuery([discounts[i] EXCEPT !.is_active = TRUE],
                                 Upper(req[p].code), loc[p].now)}
       IN IF M = {}
            THEN Finish(p, Response(404, "invalid or expired discount code"))
            ELSE Finish(p, Answer(200, "discount", CHOOSE i \in M : \A j \in M : i <= j))
    /\ UNCHANGED store

\* find_one(discounts, query): the first matching document, 404 without one
ValidateDiscountFind(p) ==
    /\ pc[p] = "vd_find"
    /\ LET M == {i \in 1..Len(discounts) :
                    MatchesQuery(discounts[i], Upper(req[p].code), loc[p].now)}
       IN IF M = {}
            THEN Finish(p, Response(404, "invalid or expired discount code"))
            ELSE Finish(p, Answer(200, "discount", CHOOSE i \in M : \A j \in M : i <= j))
    /\ UNCHANGED store

\* time passes
Tick ==
    /\ now < MaxTime
    /\ now' = now + 1
    /\ UNCHANGED <<tours, bookings, ratings, drivers, pickups, released, emails, discounts,
                   pc, req, loc, resp>>

\* ----------------------------------------------------------- registration
\* find_one({email}) on the emails col of a collection
EmailRegistered(col, email) == \E i \in 1..Len(col) : col[i] = email

EmailTaken == Response(400, "email already registered")

\* register_user and register_driver take no token
StartRegisterUser(p, email) ==
    /\ Idle(p)
    /\ Arrive(p, [NoReq EXCEPT !.op = "register_user", !.email = email],
              Response(200, "ok"), "ru_find")

\* find_one(users, {email}) and the check of the result
RegisterUserFind(p) ==
    /\ pc[p] = "ru_find"
    /\ IF EmailRegistered(emails.users, req[p].email)
         THEN Finish(p, EmailTaken)
         ELSE Goto(p, "ru_insert", NoLoc)
    /\ UNCHANGED store

\* insert_one(users)
RegisterUserInsert(p) ==
    /\ pc[p] = "ru_insert"
    /\ emails' = [emails EXCEPT !.users = Append(@, req[p].email)]
    /\ Finish(p, Answer(200, "registered", Len(emails.users) + 1))
    /\ UNCHANGED <<tours, bookings, ratings, drivers, pickups, released, discounts, now>>

StartRegisterDriver(p, email) ==
    /\ Idle(p)
    /\ Arrive(p, [NoReq EXCEPT !.op = "register_driver", !.email = email],
              Response(200, "ok"), "rg_find")

\* find_one(drivers, {email}) and the check of the result
RegisterDriverFind(p) ==
    /\ pc[p] = "rg_find"
    /\ IF EmailRegistered(emails.drivers, req[p].email)
         THEN Finish(p, EmailTaken)
         ELSE Goto(p, "rg_insert", NoLoc)
    /\ UNCHANGED store

\* insert_one(drivers), then the new document is read back and returned
RegisterDriverInsert(p) ==
    /\ pc[p] = "rg_insert"
    /\ emails' = [emails EXCEPT !.drivers = Append(@, req[p].email)]
    /\ Finish(p, Answer(200, "registered", Len(emails.drivers) + 1))
    /\ UNCHANGED <<tours, bookings, ratings, drivers, pickups, released, discounts, now>>

\* ---------------------------------------------------- read-only endpoints
\* a request arrives at a free slot; its dependency has not run yet
Receive(p, op, tok, label) ==
    /\ pc' = [pc EXCEPT ![p] = label]
    /\ req' = [req EXCEPT ![p] = [NoReq EXCEPT !.op = op, !.tok = tok]]
    /\ resp' = [resp EXCEPT ![p] = NoResp]
    /\ loc' = [loc EXCEPT ![p] = NoLoc]
    /\ UNCHANGED store

\* the dependency runs and answers one of auths; the handler follows on 200
Authenticate(p, auths, first) ==
    /\ \E a \in auths :
          IF a.code = 200 THEN Goto(p, first, NoLoc) ELSE Finish(p, a)
    /\ UNCHANGED store

\* the handler reads the store and returns what it found
ReadAndReturn(p) ==
    /\ Finish(p, Response(200, "documents"))
    /\ UNCHANGED store

StartGetMyBookings(p, tok) ==
    /\ Idle(p)
    /\ Receive(p, "get_my_bookings", tok, "mb_auth")

GetMyBookingsAuth(p) ==
    /\ pc[p] = "mb_auth"
    /\ Authenticate(p, HTTPBearerCall(req[p].tok, BookingsCurrentUser(req[p].tok)),
                    "mb_find")

GetMyBookings(p) ==
    /\ pc[p] = "mb_find"
    /\ ReadAndReturn(p)

StartGetDriverBookings(p, tok) ==
    /\ Idle(p)
    /\ Receive(p, "get_driver_bookings", tok, "db_auth")

GetDriverBookingsAuth(p) ==
    /\ pc[p] = "db_auth"
    /\ Authenticate(p, HTTPBearerCall(req[p].tok, BookingsCurrentDriver(req[p].tok)),
                    "db_find")

GetDriverBookings(p) ==
    /\ pc[p] = "db_find"
    /\ ReadAndReturn(p)

StartGetMyPickupRequests(p, tok) ==
    /\ Idle(p)
    /\ Receive(p, "get_my_pickup_requests", tok, "mr_auth")

GetMyPickupRequestsAuth(p) ==
    /\ pc[p] = "mr_auth"
    /\ Authenticate(p, HTTPBearerCall(req[p].tok, PickupCurrentUser(req[p].tok)),
                    "mr_find")

GetMyPickupRequests(p) ==
    /\ pc[p] = "mr_find"
    /\ ReadAndReturn(p)

StartGetPendingPickupRequests(p, tok) ==
    /\ Idle(p)
    /\ Receive(p, "get_pending_pickup_requests", tok, "pp_auth")

GetPendingPickupRequestsAuth(p) ==
    /\ pc[p] = "pp_auth"
    /\ Authenticate(p, HTTPBearerCall(req[p].tok, PickupCurrentDriver(req[p].tok)),
                    "pp_find")

GetPendingPickupRequests(p) ==
    /\ pc[p] = "pp_find"
    /\ ReadAndReturn(p)

StartGetCurrentUserInfo(p, tok) ==
    /\ Idle(p)
    /\ Receive(p, "get_current_user_info", tok, "ui_auth")

GetCurrentUserInfoAuth(p) ==
    /\ pc[p] = "ui_auth"
    /\ Authenticate(p, HTTPBearerCall(req[p].tok, UsersCurrentUser(req[p].tok)),
                    "ui_return")

GetCurrentUserInfo(p) ==
    /\ pc[p] = "ui_return"
    /\ ReadAndReturn(p)

StartGetCurrentDriverInfo(p, tok) ==
    /\ Idle(p)
    /\ Receive(p, "get_current_driver_info", tok, "di_auth")

GetCurrentDriverInfoAuth(p) ==
    /\ pc[p] = "di_auth"
    /\ Authenticate(p, {DriversCurrentDriver(req[p].tok)},
                    "di_return")

GetCurrentDriverInfo(p) ==
    /\ pc[p] = "di_return"
    /\ ReadAndReturn(p)

\* ------------------------------------------------------------------- specs
\* two users and two drivers are registered, each collection with distinct
\* emails; no discount is stored
InitAccounts ==
    /\ emails = [users |-> <<"e1", "e2">>, drivers |-> <<"e1", "e2">>]
    /\ discounts = <<>>
    /\ now = 0

\* the store after driver d1 published one tour (create_tour inserts it with
\* current_capacity 0); two users and two drivers are registered
Init ==
    /\ tours = <<[driver_id |-> "d1", max_capacity |-> MaxCapacity, current_capacity |-> 0]>>
    /\ bookings = <<>>
    /\ ratings = EmptyBag
    /\ drivers = [d \in DriverIds |-> [rating2 |-> 0, total_trips |-> 0]]
    /\ pickups = <<>>
    /\ released = <<>>
    /\ InitAccounts
    /\ pc = [p \in Procs |-> "idle"]
    /\ req = [p \in Procs |-> NoReq]
    /\ loc = [p \in Procs |-> NoLoc]
    /\ resp = [p \in Procs |-> NoResp]

BookingStep(p, Toks) ==
    \/ \E tok \in Toks, t \in TourIdInputs, n \in People, pay \in PaymentTypes :
          StartCreateBooking(p, tok, t, n, pay)
    \/ CreateBookingFind(p)
    \/ CreateBookingInsert(p)
    \/ CreateBookingInc(p)
    \/ \E tok \in Toks, b \in BookingIdInputs : StartCancelBooking(p, tok, b)
    \/ CancelBookingFind(p)
    \/ CancelBookingSet(p)
    \/ CancelBookingDec(p)
    \/ \E tok \in Toks, b \in BookingIdInputs : StartCompleteBooking(p, tok, b)
    \/ CompleteBookingFind(p)
    \/ CompleteBookingSet(p)

RatingStep(p, Toks, Scores) ==
    \/ \E tok \in Toks, d \in DriverIds, b \in RatedBookingInputs, score \in Scores :
          StartRateDriver(p, tok, d, b, score)
    \/ RateDriverFind(p)
    \/ RateDriverExist(p)
    \/ RateDriverInsert(p)
    \/ RateDriverAggregate(p)
    \/ RateDriverUpdate(p)

\* the store after user u1 booked one seat k + 1 times on a tour of d1 and d1
\* completed the first k bookings
InitRated(k) ==
    /\ tours = <<[driver_id |-> "d1", max_capacity |-> k + 1, current_capacity |-> k + 1]>>
    /\ bookings = [b \in 1..(k + 1) |->
                      [tour_id |-> 1, user_id |-> "u1", number_of_people |-> 1,
                       status |-> IF b <= k THEN "completed" ELSE "paid"]]
    /\ ratings = EmptyBag
    /\ drivers = [d \in DriverIds |-> [rating2 |-> 0, total_trips |-> 0]]
    /\ pickups = <<>>
    /\ released = [b \in 1..(k + 1) |-> 0]
    /\ InitAccounts
    /\ pc = [p \in Procs |-> "idle"]
    /\ req = [p \in Procs |-> NoReq]
    /\ loc = [p \in Procs |-> NoLoc]
    /\ resp = [p \in Procs |-> NoResp]

Next == \E p \in Procs : BookingStep(p, ConcTokens)

Spec == Init /\ [][Next]_vars

\* the store after startup: every collection is empty; two users and two
\* drivers are registered
InitEmpty ==
    /\ tours = <<>>
    /\ bookings = <<>>
    /\ ratings = EmptyBag
    /\ drivers = [d \in DriverIds |-> [rating2 |-> 0, total_trips |-> 0]]
    /\ pickups = <<>>
    /\ released = <<>>
    /\ InitAccounts
    /\ pc = [p \in Procs |-> "idle"]
    /\ req = [p \in Procs |-> NoReq]
    /\ loc = [p \in Procs |-> NoLoc]
    /\ resp = [p \in Procs |-> NoResp]

PickupStep(p, UToks, DToks) ==
    \/ \E tok \in UToks : StartCreatePickup(p, tok)
    \/ CreatePickupInsert(p)
    \/ \E tok \in UToks, r \in PickupIdInputs : StartUserCancel(p, tok, r)
    \/ UserCancelFind(p)
    \/ UserCancelSet(p)
    \/ \E tok \in DToks, r \in PickupIdInputs : StartAcceptPickup(p, tok, r)
    \/ AcceptPickupUpdate(p)
    \/ \E tok \in DToks, r \in PickupIdInputs : StartCancelPickup(p, tok, r)
    \/ CancelPickupUpdate(p)
    \/ \E tok \in DToks, r \in PickupIdInputs : StartCompletePickup(p, tok, r)
    \/ CompletePickupUpdate(p)

\* the pickup endpoints, requests handled concurrently: user u1 calls the
\* user-side endpoints, the drivers d1 and d2 the driver-side ones
NextPickup == \E p \in Procs : PickupStep(p, ConcTokens \cap UserTokens, DriverTokens)
SpecPickup == InitEmpty /\ [][NextPickup]_vars

\* a slot that has not handled a request yet
Fresh(p) == Idle(p) /\ resp[p] = NoResp

\* the store after user u1 created MaxPickups pickup requests
InitPending ==
    /\ tours = <<>>
    /\ bookings = <<>>
    /\ ratings = EmptyBag
    /\ drivers = [d \in DriverIds |-> [rating2 |-> 0, total_trips |-> 0]]
    /\ pickups = [r \in 1..MaxPickups |->
                     [user_id |-> "u1", status |-> "pending", driver_id |-> Null]]
    /\ released = <<>>
    /\ InitAccounts
    /\ pc = [p \in Procs |-> "idle"]
    /\ req = [p \in Procs |-> NoReq]
    /\ loc = [p \in Procs |-> NoLoc]
    /\ resp = [p \in Procs |-> NoResp]

\* each slot handles one accept_pickup_request, the two concurrently
NextAcceptRace ==
    \E p \in Procs :
        \/ \E tok \in DriverTokens, r \in PickupIdInputs :
              Fresh(p) /\ StartAcceptPickup(p, tok, r)
        \/ AcceptPickupUpdate(p)
SpecAcceptRace == InitPending /\ [][NextAcceptRace]_vars

\* rate_driver requests handled concurrently
InitRating == InitRated(MaxBookings)
NextRating == \E p \in Procs : RatingStep(p, UserTokens, ConcScores)
SpecRating == InitRating /\ [][NextRating]_vars

\* rate_driver requests handled one at a time
InitRatingSeq == InitRated(MaxRatings)
NextRatingSeq == \E p \in SeqProcs : RatingStep(p, Tokens, ScoreInputs)
SpecRatingSeq == InitRatingSeq /\ [][NextRatingSeq]_vars

\* registrations handled concurrently
RegisterStep(p) ==
    \/ \E email \in EmailInputs : StartRegisterUser(p, email)
    \/ RegisterUserFind(p)
    \/ RegisterUserInsert(p)
    \/ \E email \in EmailInputs : StartRegisterDriver(p, email)
    \/ RegisterDriverFind(p)
    \/ RegisterDriverInsert(p)

NextRegister == \E p \in Procs : RegisterStep(p)
SpecRegister == InitEmpty /\ [][NextRegister]_vars


\* the read-only endpoints, one per authentication dependency
AuthStep(p) ==
    \/ \E tok \in AuthTokens : StartGetMyBookings(p, tok)
    \/ GetMyBookingsAuth(p)
    \/ GetMyBookings(p)
    \/ \E tok \in AuthTokens : StartGetDriverBookings(p, tok)
    \/ GetDriverBookingsAuth(p)
    \/ GetDriverBookings(p)
    \/ \E tok \in AuthTokens : StartGetMyPickupRequests(p, tok)
    \/ GetMyPickupRequestsAuth(p)
    \/ GetMyPickupRequests(p)
    \/ \E tok \in AuthTokens : StartGetPendingPickupRequests(p, tok)
    \/ GetPendingPickupRequestsAuth(p)
    \/ GetPendingPickupRequests(p)
    \/ \E tok \in AuthTokens : StartGetCurrentUserInfo(p, tok)
    \/ GetCurrentUserInfoAuth(p)
    \/ GetCurrentUserInfo(p)
    \/ \E tok \in AuthTokens : StartGetCurrentDriverInfo(p, tok)
    \/ GetCurrentDriverInfoAuth(p)
    \/ GetCurrentDriverInfo(p)

NextAuth == \E p \in Procs : AuthStep(p)
SpecAuth == InitEmpty /\ [][NextAuth]_vars

\* the store after d1 published a tour, u1 booked one seat on it (cash) and
\* u1 created one pickup request
InitKinds ==
    /\ tours = <<[driver_id |-> "d1", max_capacity |-> MaxCapacity, current_capacity |-> 1]>>
    /\ bookings = <<[tour_id |-> 1, user_id |-> "u1", number_of_people |-> 1,
                     status |-> "upcoming"]>>
    /\ ratings = EmptyBag
    /\ drivers = [d \in DriverIds |-> [rating2 |-> 0, total_trips |-> 0]]
    /\ pickups = <<[user_id |-> "u1", status |-> "pending", driver_id |-> Null]>>
    /\ released = <<0>>
    /\ InitAccounts
    /\ pc = [p \in Procs |-> "idle"]
    /\ req = [p \in Procs |-> NoReq]
    /\ loc = [p \in Procs |-> NoLoc]
    /\ resp = [p \in Procs |-> NoResp]

\* every writing endpoint, called with a token of either kind; each slot
\* handles one request, the two concurrently
NextKinds ==
    \E p \in Procs :
        \/ \E tok \in KindTokens, cap \in CapacityInputs :
              Fresh(p) /\ StartCreateTour(p, tok, cap)
        \/ CreateTourInsert(p)
        \/ \E tok \in KindTokens, t \in TourIdInputs, n \in People, pay \in PaymentTypes :
              Fresh(p) /\ StartCreateBooking(p, tok, t, n, pay)
        \/ CreateBookingFind(p)
        \/ CreateBookingInsert(p)
        \/ CreateBookingInc(p)
        \/ \E tok \in KindTokens, b \in BookingIdInputs :
              Fresh(p) /\ StartCancelBooking(p, tok, b)
        \/ CancelBookingFind(p)
        \/ CancelBookingSet(p)
        \/ CancelBookingDec(p)
        \/ \E tok \in KindTokens, b \in BookingIdInputs :
              Fresh(p) /\ StartCompleteBooking(p, tok, b)
        \/ CompleteBookingFind(p)
        \/ CompleteBookingSet(p)
        \/ \E tok \in KindTokens, d \in DriverIds, b \in BookingIdInputs, score \in ConcScores :
              Fresh(p) /\ StartRateDriver(p, tok, d, b, score)
        \/ RateDriverFind(p)
        \/ RateDriverExist(p)
        \/ RateDriverInsert(p)
        \/ RateDriverAggregate(p)
        \/ RateDriverUpdate(p)
        \/ \E tok \in KindTokens : Fresh(p) /\ StartCreatePickup(p, tok)
        \/ CreatePickupInsert(p)
        \/ \E tok \in KindTokens, r \in PickupIdInputs :
              Fresh(p) /\ StartUserCancel(p, tok, r)
        \/ UserCancelFind(p)
        \/ UserCancelSet(p)
        \/ \E tok \in KindTokens, r \in PickupIdInputs :
              Fresh(p) /\ StartAcceptPickup(p, tok, r)
        \/ AcceptPickupUpdate(p)
        \/ \E tok \in KindTokens, r \in PickupIdInputs :
              Fresh(p) /\ StartCancelPickup(p, tok, r)
        \/ CancelPickupUpdate(p)
        \/ \E tok \in KindTokens, r \in PickupIdInputs :
              Fresh(p) /\ StartCompletePickup(p, tok, r)
        \/ CompletePickupUpdate(p)
SpecKinds == InitKinds /\ [][NextKinds]_vars

\* any discounts collection of at most MaxDiscounts documents; the codes are
\* validated one at a time while time passes
InitDiscount ==
    /\ tours = <<>>
    /\ bookings = <<>>
    /\ ratings = EmptyBag
    /\ drivers = [d \in DriverIds |-> [rating2 |-> 0, total_trips |-> 0]]
    /\ pickups = <<>>
    /\ released = <<>>
    /\ emails = [users |-> <<"e1", "e2">>, drivers |-> <<"e1", "e2">>]
    /\ discounts \in UNION {[1..k -> DiscountDocs] : k \in 0..MaxDiscounts}
    /\ now = 0
    /\ pc = [p \in Procs |-> "idle"]
    /\ req = [p \in Procs |-> NoReq]
    /\ loc = [p \in Procs |-> NoLoc]
    /\ resp = [p \in Procs |-> NoResp]

NextDiscount ==
    \/ \E p \in SeqProcs :
          \/ \E code \in CodeInputs : StartValidateDiscount(p, code)
          \/ ValidateDiscountFind(p)
    \/ Tick
SpecDiscount == InitDiscount /\ [][NextDiscount]_vars

\* create_booking with any integer as number_of_people, one request at a time
NextAnyPeople ==
    \E p \in SeqProcs :
        \/ \E tok \in UserTokens, t \in TourIdInputs, n \in PeopleInputs, pay \in PaymentTypes :
              StartCreateBooking(p, tok, t, n, pay)
        \/ CreateBookingFind(p)
        \/ CreateBookingInsert(p)
        \/ CreateBookingInc(p)
SpecAnyPeople == Init /\ [][NextAnyPeople]_vars

\* cancel_booking for the bookings that exist, called by either user, the
\* requests handled concurrently
NextCancelOwner ==
    \E p \in Procs :
        \/ \E tok \in UserTokens, b \in BookingIdInputs :
              BookingExists(b) /\ StartCancelBooking(p, tok, b)
        \/ CancelBookingFind(p)
        \/ CancelBookingSet(p)
        \/ CancelBookingDec(p)
SpecCancelOwner == InitKinds /\ [][NextCancelOwner]_vars

\* cancel_booking, complete_booking and rate_driver on the booking of u1,
\* the requests handled concurrently
NextRateRace ==
    \E p \in Procs :
        \/ \E tok \in KindTokens, b \in BookingIdInputs : StartCancelBooking(p, tok, b)
        \/ CancelBookingFind(p)
        \/ CancelBookingSet(p)
        \/ CancelBookingDec(p)
        \/ \E tok \in KindTokens, b \in BookingIdInputs : StartCompleteBooking(p, tok, b)
        \/ CompleteBookingFind(p)
        \/ CompleteBookingSet(p)
        \/ \E tok \in KindTokens, d \in DriverIds, b \in BookingIdInputs, score \in ConcScores :
              StartRateDriver(p, tok, d, b, score)
        \/ RateDriverFind(p)
        \/ RateDriverExist(p)
        \/ RateDriverInsert(p)
        \/ RateDriverAggregate(p)
        \/ RateDriverUpdate(p)
SpecRateRace == InitKinds /\ [][NextRateRace]_vars

\* the callers of get_tours: nobody and user u1
ListingTokens == {NoToken, [user_type |-> "user", sub |-> "u1"]}

\* the drivers publish tours while the tours are listed
NextTours ==
    \E p \in Procs :
        \/ \E tok \in DriverTokens, cap \in CapacityInputs :
              /\ Len(tours) + NumInFlight("create_tour") < MaxTours
              /\ StartCreateTour(p, tok, cap)
        \/ CreateTourInsert(p)
        \/ \E tok \in ListingTokens : StartGetTours(p, tok)
        \/ GetToursBookings(p)
        \/ GetToursAggregate(p)
SpecTours == InitEmpty /\ [][NextTours]_vars

\* ------------------------------------------------------------------ claims
Moved(p) == pc'[p] # pc[p]
CapacityError == Response(400, "not enough capacity")

\* C1: every tour satisfies 0 <= current_capacity <= max_capacity in every
\* reachable state, whatever the interleaving of create_booking,
\* cancel_booking and complete_booking
C1_CapacityWithinBounds ==
    \A t \in 1..Len(tours) :
        /\ 0 <= tours[t].current_capacity
        /\ tours[t].current_capacity <= tours[t].max_capacity

\* C2: create_booking on an existing tour answers 400 (capacity) iff
\* current_capacity + number_of_people > max_capacity in the tour as read;
\* a successful request inserts exactly one booking and raises the tour's
\* current_capacity by exactly number_of_people
C2_CreateBookingContract ==
    [][\A p \in Procs :
        LET t == req[p].tour_id
            n == req[p].number_of_people
        IN
        /\ (pc[p] = "cb_find" /\ Moved(p) /\ TourExists(t)) =>
              /\ (resp'[p] = CapacityError) <=>
                    (tours[t].current_capacity + n > tours[t].max_capacity)
              /\ (resp'[p] # CapacityError) => pc'[p] = "cb_insert"
              /\ bookings' = bookings /\ tours' = tours
        /\ (pc[p] = "cb_insert" /\ Moved(p)) =>
              /\ pc'[p] = "cb_inc"
              /\ Len(bookings') = Len(bookings) + 1
              /\ SubSeq(bookings', 1, Len(bookings)) = bookings
              /\ bookings'[Len(bookings')].tour_id = t
              /\ bookings'[Len(bookings')].number_of_people = n
              /\ tours' = tours
        /\ (pc[p] = "cb_inc" /\ Moved(p)) =>
              /\ resp'[p] = Response(200, "booking")
              /\ bookings' = bookings
              /\ tours' = [tours EXCEPT ![t].current_capacity = tours[t].current_capacity + n]
    ]_vars

\* C2 witness: one request was refused for capacity and another one succeeded
\* with two seats on the tour
C2_Witness ==
    /\ \E p \in Procs : resp[p] = CapacityError
    /\ \E p \in Procs : resp[p] = Response(200, "booking")
    /\ Len(tours) = 1 /\ tours[1].current_capacity = 2
    /\ \E b \in 1..Len(bookings) : bookings[b].number_of_people = 2

\* C3: cancel_booking by the owner on a booking read as upcoming or paid sets
\* the booking's status to cancelled and lowers the tour's current_capacity by
\* exactly the booking's number_of_people
C3_CancelReleasesSeats ==
    [][\A p \in Procs :
        LET b == req[p].booking_id IN
        /\ (pc[p] = "cn_find" /\ Moved(p) /\ BookingExists(b)
              /\ bookings[b].user_id = req[p].tok.sub
              /\ bookings[b].status \in {"upcoming", "paid"}) =>
              pc'[p] = "cn_set"
        /\ (pc[p] = "cn_set" /\ Moved(p)) =>
              /\ pc'[p] = "cn_dec"
              /\ bookings'[b].status = "cancelled"
              /\ tours' = tours
        /\ (pc[p] = "cn_dec" /\ Moved(p)) =>
              /\ resp'[p] = Response(200, "booking cancelled")
              /\ bookings' = bookings
              /\ LET t == bookings[b].tour_id IN
                 tours' = [tours EXCEPT ![t].current_capacity =
                              tours[t].current_capacity - bookings[b].number_of_people]
    ]_vars

\* C3 witness: two seats were booked and the cancel gave both back
C3_Witness ==
    /\ \E p \in Procs : resp[p] = Response(200, "booking cancelled")
    /\ Len(tours) = 1 /\ tours[1].current_capacity = 0
    /\ Len(bookings) = 1
    /\ bookings[1].number_of_people = 2
    /\ bookings[1].status = "cancelled"
    /\ released[1] = 1

\* C4: cancel_booking on a completed or cancelled booking answers 400 and
\* changes nothing, also when it interleaves with another cancel or complete
\* of the same booking: the seats of a booking are released at most once, and
\* a cancel never writes after a 400
C4_SeatsReleasedAtMostOnce ==
    \A b \in 1..Len(bookings) : released[b] <= 1

C6_AtMostOneRatingPerBooking ==
    \A b \in 1..Len(bookings) : CountRatings(RatingsFor(b), ratings) <= 1

AlreadyRated == Response(400, "already rated")

\* C7: a rate_driver request that looks up a booking which already has a
\* stored rating fails: unless an earlier check refuses it with 400, 403 or
\* 404, it answers 400 'already rated' at the lookup of the existing rating;
\* it never reaches the insert, and its steps leave ratings and the drivers'
\* rating and total_trips unchanged
C7_RatedBookingRefused ==
    [][\A p \in Procs :
        (pc[p] \in {"rd_find", "rd_exist"} /\ Moved(p)
            /\ RatingsFor(req[p].booking_id) # {}) =>
            /\ pc[p] = "rd_find" =>
                  \/ pc'[p] = "rd_exist"
                  \/ pc'[p] = "idle" /\ resp'[p].code \in {400, 403, 404}
            /\ pc[p] = "rd_exist" => (pc'[p] = "idle" /\ resp'[p] = AlreadyRated)
            /\ ratings' = ratings
            /\ drivers' = drivers
    ]_vars

\* C7 witness: booking 1 has its rating, driver d1 has the aggregate of that
\* one rating, and a later request for a rated booking was refused
C7_Witness ==
    /\ \E p \in Procs : resp[p] = AlreadyRated
    /\ CountRatings(RatingsFor(1), ratings) = 1
    /\ BagCardinality(ratings) = 1
    /\ drivers["d1"].total_trips = 1

Abs(x) == IF x < 0 THEN -x ELSE x

\* C8: when a rate_driver request that ran without a concurrent rating
\* finishes, total_trips of the rated driver is the number N of ratings stored
\* for the driver and the driver's rating is the half star nearest to their
\* mean S / N (in half stars: |rating2 - 2S/N| <= 1/2); ratings 3,4,5 give
\* 4.0, ratings 3,4 give 3.5, one rating 5 gives 5.0 with total_trips 1
C8_AggregateIsRoundedMean ==
    [][\A p \in SeqProcs :
        (pc[p] = "rd_update" /\ Moved(p)) =>
            LET d == req[p].driver_id
                S == SumRatings(RatingsOf(d), ratings)
                N == CountRatings(RatingsOf(d), ratings)
                r2 == drivers'[d].rating2
            IN
            /\ resp'[p].code = 201
            /\ N > 0
            /\ drivers'[d].total_trips = N
            /\ 2 * Abs(r2 * N - 2 * S) <= N
            /\ (S = 12 /\ N = 3) => r2 = 8
            /\ (S = 7 /\ N = 2) => r2 = 7
            /\ (S = 5 /\ N = 1) => r2 = 10
            /\ \A e \in DriverIds \ {d} : drivers'[e] = drivers[e]
    ]_vars

\* C8 witness: the ratings 3, 4 and 5 are stored for d1, whose rating is 4.0
\* with total_trips 3 after the last request succeeded
C8_Witness ==
    /\ \E p \in SeqProcs : pc[p] = "idle" /\ resp[p] = Response(201, "rating submitted")
    /\ {r.rating : r \in RatingsOf("d1")} = {3, 4, 5}
    /\ BagCardinality(ratings) = 3
    /\ drivers["d1"] = [rating2 |-> 8, total_trips |-> 3]

\* ------------------------------------------------------- claims on pickups
Accepted(r) == Answer(200, "accepted", r)
AlreadyHandled == Response(404, "not found or already handled")

\* C9: of the accept_pickup_request calls racing for one pending request
\* exactly one succeeds and the request is accepted with the winner as
\* driver_id; every other call gets 'not found or already handled' and leaves
\* the request as it is
C9_ExactlyOneAcceptWins ==
    /\ [](\A r \in 1..Len(pickups) :
            LET W == {p \in Procs : resp[p] = Accepted(r)} IN
            /\ Cardinality(W) <= 1
            /\ W # {} => pickups[r].status = "accepted" /\ pickups[r].driver_id \in DriverIds
            /\ W = {} => pickups[r].status = "pending" /\ pickups[r].driver_id = Null)
    /\ [](\A p \in Procs :
            resp[p].code = 404 =>
                /\ resp[p] = AlreadyHandled
                /\ \E q \in Procs \ {p} : resp[q].code = 200)
    /\ [][\A p \in Procs :
            LET r == req[p].request_id IN
            (pc[p] = "pa_update" /\ Moved(p) /\ PickupExists(r)) =>
                IF pickups[r].status = "pending"
                  THEN /\ resp'[p] = Accepted(r)
                       /\ pickups' = [pickups EXCEPT ![r] =
                             [pickups[r] EXCEPT !.status = "accepted",
                                                !.driver_id = req[p].tok.sub]]
                  ELSE /\ resp'[p] = AlreadyHandled
                       /\ pickups' = pickups
       ]_vars

\* C9 witness: both calls are answered, one with the accepted request 1 and
\* the other with the error, and request 1 is accepted
C9_Witness ==
    \E p \in Procs, q \in Procs :
        /\ p # q
        /\ resp[p] = Accepted(1)
        /\ resp[q] = AlreadyHandled
        /\ pickups[1].status = "accepted"
        /\ pickups[2].status = "pending"

CancelRefused == Response(404, "not found or not authorized to cancel")

\* C10: the driver's cancel_pickup_request on an accepted request: by a
\* driver other than the assignee it answers an error and leaves status and
\* driver_id as they are; by the assignee it sets status to pending and
\* driver_id to null
C10_DriverCancelOnAccepted ==
    [][\A p \in Procs :
        LET r == req[p].request_id IN
        (pc[p] = "pc_update" /\ Moved(p) /\ PickupExists(r)
            /\ pickups[r].status = "accepted") =>
            IF pickups[r].driver_id = req[p].tok.sub
              THEN /\ resp'[p] = Answer(200, "pending", r)
                   /\ pickups'[r].status = "pending"
                   /\ pickups'[r].driver_id = Null
                   /\ pickups'[r].user_id = pickups[r].user_id
              ELSE /\ resp'[p] = CancelRefused
                   /\ pickups' = pickups
    ]_vars

\* C10 witness: request 1 was accepted through one slot and then re-opened
\* through the other (a cancel before the accept would leave it accepted)
C10_Witness ==
    /\ Len(pickups) = 1
    /\ pickups[1].status = "pending" /\ pickups[1].driver_id = Null
    /\ resp["p1"] = Accepted(1)
    /\ resp["p2"] = Answer(200, "pending", 1)
    /\ \A p \in Procs : pc[p] = "idle"
CompleteRefused == Response(404, "not found, not assigned to you, or not accepted")

\* C11: complete_pickup_request sets a request to completed only if, when
\* the update runs, the request is accepted and its driver_id is the calling
\* driver; on a request that is pending, cancelled, completed or accepted by
\* another driver it answers an error and leaves the request unchanged; no
\* other step makes a request completed
C11_CompleteOnlyByAssignee ==
    [][/\ \A p \in Procs :
            LET r == req[p].request_id IN
            (pc[p] = "pm_update" /\ Moved(p) /\ PickupExists(r)) =>
                IF pickups[r].status = "accepted" /\ pickups[r].driver_id = req[p].tok.sub
                  THEN /\ resp'[p] = Answer(200, "completed", r)
                       /\ pickups' = [pickups EXCEPT ![r].status = "completed"]
                  ELSE /\ resp'[p] = CompleteRefused
                       /\ pickups' = pickups
       /\ \A r \in 1..Len(pickups) :
            (pickups'[r].status = "completed" /\ pickups[r].status # "completed") =>
                \E p \in Procs :
                    /\ pc[p] = "pm_update" /\ Moved(p)
                    /\ req[p].request_id = r
                    /\ pickups[r].status = "accepted"
                    /\ pickups[r].driver_id = req[p].tok.sub
    ]_vars

\* C11 witness: request 1 was completed by its driver d1 through one slot and
\* a complete through the other slot was refused
C11_Witness ==
    /\ Len(pickups) = 1
    /\ pickups[1].status = "completed" /\ pickups[1].driver_id = "d1"
    /\ resp["p1"] = Answer(200, "completed", 1)
    /\ resp["p2"] = CompleteRefused
\* C12: user_cancel_request sets a request to cancelled only when the caller
\* owns it and it is pending when the status is written: under every
\* interleaving with the drivers' accept, cancel and complete a request that
\* is accepted or completed is never set to cancelled
C12_UserCancelOnlyFromPending ==
    [][\A r \in 1..Len(pickups) :
        (pickups'[r].status = "cancelled" /\ pickups[r].status # "cancelled") =>
            pickups[r].status = "pending"
    ]_vars
\* ------------------------------------------------ further claims on bookings
\* C13: completed and cancelled are terminal: once a booking's status is
\* completed or cancelled no step of create_booking, cancel_booking or
\* complete_booking, in any interleaving, changes that status
C13_TerminalStatuses ==
    [][\A b \in 1..Len(bookings) :
        bookings[b].status \in {"completed", "cancelled"} =>
            bookings'[b].status = bookings[b].status
    ]_vars
\* --------------------------------------------------- claims on registration
Distinct(col) == \A i, j \in 1..Len(col) : i # j => col[i] # col[j]

\* C14: within users, and within drivers, no two accounts share an email,
\* also after two registrations with one email ran concurrently
C14_UniqueEmails == Distinct(emails.users) /\ Distinct(emails.drivers)
\* ------------------------------------------------- claims on authentication
AuthLabels == {"mb_auth", "db_auth", "mr_auth", "pp_auth", "ui_auth", "di_auth"}
UserSideLabels == {"mb_auth", "mr_auth", "ui_auth"}

\* the kind of principal the endpoint the slot is at requires
RequiredKind(p) == IF pc[p] \in UserSideLabels THEN "user" ELSE "driver"

\* C15: each authentication dependency (bookings, pickup, users, drivers)
\* answers a request whose token is missing or invalid with 401 and a request
\* whose valid token is of the wrong kind with 403
C15_AuthStatusCodes ==
    [][\A p \in Procs :
        (pc[p] \in AuthLabels /\ Moved(p)) =>
            /\ req[p].tok \in {NoToken, BadToken} => resp'[p].code = 401
            /\ (req[p].tok.user_type \in {"user", "driver"}
                  /\ req[p].tok.user_type # RequiredKind(p)) => resp'[p].code = 403
    ]_vars
\* -------------------------------------------------- claims on principal kinds
UserSideOps == {"create_booking", "cancel_booking", "create_pickup_request",
                "user_cancel_request", "rate_driver"}
DriverSideOps == {"create_tour", "complete_booking", "accept_pickup_request",
                  "cancel_pickup_request", "complete_pickup_request"}

\* the kind of principal the operation op is for
KindOf(op) == IF op \in UserSideOps THEN "user" ELSE "driver"

\* C16: a request with a token of kind user never causes a driver-side
\* effect and a request with a token of kind driver never causes a user-side
\* effect: a handler only runs for a token of its own kind, every change of
\* the store is a step of such a handler, and a request refused on arrival
\* answers an error and leaves the store unchanged
C16_KindLimitsEffects ==
    /\ [](\A p \in Procs :
            InFlight(p) =>
                /\ req[p].op \in UserSideOps \cup DriverSideOps
                /\ req[p].tok.user_type = KindOf(req[p].op))
    /\ [][/\ store' # store =>
                \E p \in Procs :
                    /\ InFlight(p) /\ Moved(p)
                    /\ req[p].tok.user_type = KindOf(req[p].op)
          /\ \A p \in Procs :
                (Idle(p) /\ pc'[p] = "idle" /\ resp'[p] # resp[p]) =>
                    /\ resp'[p].code \in {403, 404, 422}
                    /\ store' = store
       ]_vars

\* C16 witness: a driver-side request was refused for its user token and a
\* user-side request for its driver token; the store is as it was
C16_Witness ==
    /\ resp["p1"] = Response(403, "driver role required")
    /\ resp["p2"] = Response(403, "user role required")
    /\ Len(tours) = 1 /\ tours[1].current_capacity = 1
    /\ Len(bookings) = 1 /\ bookings[1].status = "upcoming"
    /\ Len(pickups) = 1 /\ pickups[1].status = "pending"
    /\ ratings = EmptyBag
\* ------------------------------------------------------ claims on discounts
\* C17: validate_discount_code returns a discount whose code is the
\* upper-cased input, with is_active true and start_date <= now <= end_date,
\* now being the handler's utcnow(), when there is one; for a code that is
\* unknown, inactive or outside its window it answers 404
C17_ValidateDiscount ==
    [][\A p \in SeqProcs :
        /\ (Idle(p) /\ pc'[p] = "vd_find") => loc'[p].now = now
        /\ (pc[p] = "vd_find" /\ Moved(p)) =>
            LET q == loc[p].now
                Valid(i) == /\ i \in 1..Len(discounts)
                            /\ discounts[i].code = Upper(req[p].code)
                            /\ discounts[i].is_active = TRUE
                            /\ discounts[i].start_date <= q
                            /\ q <= discounts[i].end_date
            IN IF \E i \in 1..Len(discounts) : Valid(i)
                 THEN resp'[p].code = 200 /\ Valid(resp'[p].id)
                 ELSE resp'[p].code = 404
    ]_vars

\* C17 witness: the lower-case input save10 was answered with the active
\* discount SAVE10, valid from 1 to 1, asked at time 1
C17_Witness ==
    /\ discounts = <<[code |-> "SAVE10", is_active |-> TRUE, start_date |-> 1, end_date |-> 1]>>
    /\ now = 1
    /\ resp["p1"] = Answer(200, "discount", 1)
\* ------------------------------------------------ claims on create_booking
\* C18: every booking stored by create_booking has number_of_people > 0 (a
\* request with number_of_people <= 0 is rejected and changes neither
\* bookings nor the tour's current_capacity)
C18_PositivePeople ==
    \A b \in 1..Len(bookings) : bookings[b].number_of_people > 0
\* C19: two create_booking requests for one tour, each fitting the remaining
\* capacity on its own, can both pass the capacity check before either
\* increments: the check of one request passes on the stored
\* current_capacity while the other is between its check and its increment,
\* and each increment adds its seats without a second check, so both succeed
\* and the tour ends with current_capacity > max_capacity
C19_CheckIgnoresPendingIncrements ==
    [][\A p \in Procs :
        LET t == req[p].tour_id
            n == req[p].number_of_people
        IN
        /\ (pc[p] = "cb_find" /\ Moved(p) /\ TourExists(t)
              /\ tours[t].current_capacity + n <= tours[t].max_capacity
              /\ \E q \in Procs \ {p} : pc[q] \in {"cb_insert", "cb_inc"} /\ req[q].tour_id = t) =>
              pc'[p] = "cb_insert"
        /\ (pc[p] = "cb_inc" /\ Moved(p)
              /\ tours[t].current_capacity + n > tours[t].max_capacity) =>
              /\ tours'[t].current_capacity = tours[t].current_capacity + n
              /\ resp'[p].code = 200
    ]_vars

\* C19 witness: both requests succeeded, no booking was cancelled, each
\* booking fits the tour on its own and the tour is over-booked
C19_Witness ==
    /\ \A p \in Procs : pc[p] = "idle" /\ resp[p] = Response(200, "booking")
    /\ Len(bookings) = 2
    /\ \A b \in 1..Len(bookings) :
          /\ bookings[b].tour_id = 1
          /\ bookings[b].status \in {"upcoming", "paid"}
          /\ bookings[b].number_of_people <= tours[1].max_capacity
          /\ released[b] = 0
    /\ tours[1].current_capacity = bookings[1].number_of_people + bookings[2].number_of_people
    /\ tours[1].current_capacity > tours[1].max_capacity

\* C20: a booking created by create_booking starts as upcoming exactly when
\* payment_type is cash and as paid otherwise; bookings only grows by that
\* insert, so no booking is created as completed or cancelled
C20_InitialStatus ==
    [][/\ \A p \in Procs :
            (pc[p] = "cb_insert" /\ Moved(p)) =>
                LET new == bookings'[Len(bookings')] IN
                /\ Len(bookings') = Len(bookings) + 1
                /\ (new.status = "upcoming") <=> (req[p].payment_type = "cash")
                /\ (new.status = "paid") <=> (req[p].payment_type # "cash")
       /\ Len(bookings') # Len(bookings) =>
            /\ \E p \in Procs : pc[p] = "cb_insert" /\ Moved(p)
            /\ bookings'[Len(bookings')].status \in {"upcoming", "paid"}
    ]_vars

\* C20 witness: the first request paid cash, the second by card, and both
\* bookings are as they were created
C20_Witness ==
    /\ \A p \in Procs : pc[p] = "idle" /\ resp[p] = Response(200, "booking")
    /\ Len(bookings) = 2
    /\ bookings[1].status = "upcoming"
    /\ bookings[2].status = "paid"
    /\ tours[1].current_capacity <= tours[1].max_capacity

\* ------------------------------------------------ claims on cancel_booking
AccessDenied == Response(404, "booking not found or access denied")

\* C21: cancel_booking called by a user who does not own the booking fails
\* with 404 'not found or access denied' at the lookup, goes no further, and
\* leaves the booking's status and the tour's current_capacity unchanged
C21_CancelByNonOwnerRefused ==
    [][\A p \in Procs :
        LET b == req[p].booking_id IN
        (pc[p] = "cn_find" /\ Moved(p) /\ BookingExists(b)
            /\ bookings[b].user_id # req[p].tok.sub) =>
            /\ pc'[p] = "idle"
            /\ resp'[p] = AccessDenied
            /\ bookings' = bookings
            /\ tours' = tours
            /\ released' = released
    ]_vars

\* C21 witness: the cancel of u1's booking by u2 was answered with the 404
\* (every booking sent exists) and the booking is still upcoming with its seat
C21_Witness ==
    /\ \E p \in Procs : pc[p] = "idle" /\ resp[p] = AccessDenied
    /\ \A p \in Procs : resp[p].code # 200
    /\ bookings[1].user_id = "u1" /\ bookings[1].status = "upcoming"
    /\ tours[1].current_capacity = 1
    /\ released[1] = 0

\* ------------------------------------------- further claims on pickups
Reopened(r) == Answer(200, "pending", r)

\* C22: the driver's cancel_pickup_request on a pending request succeeds for
\* any driver and is an idempotent re-open: it answers 200 with the request
\* pending and leaves the collection exactly as it was (status pending,
\* driver_id null), so one call or any number of calls give the same state
C22_CancelOnPendingIsIdempotent ==
    [][\A p \in Procs :
        LET r == req[p].request_id IN
        (pc[p] = "pc_update" /\ Moved(p) /\ PickupExists(r)
            /\ pickups[r].status = "pending") =>
            /\ req[p].tok.sub \in DriverIds
            /\ resp'[p] = Reopened(r)
            /\ pickups' = pickups
            /\ pickups'[r].status = "pending"
            /\ pickups'[r].driver_id = Null
    ]_vars

\* C22 witness: both slots answered a cancel of request 2 with the pending
\* request (the create of request 2 answers through one slot at most), and
\* the request is pending with no driver
C22_Witness ==
    /\ Len(pickups) = 2
    /\ \A p \in Procs : pc[p] = "idle" /\ resp[p] = Reopened(2)
    /\ pickups[1].status = "pending"
    /\ pickups[2].status = "pending" /\ pickups[2].driver_id = Null

\* ------------------------------------------- further claims on ratings
\* C23: rate_driver inserts a rating only when the booking exists, belongs to
\* the calling user, its tour's driver is the rated driver and its status is
\* completed: the booking a rating is inserted for is completed at the moment
\* of the insert
C23_RatingOnlyForCompleted ==
    [][\A p \in Procs :
        (pc[p] = "rd_insert" /\ Moved(p)) =>
            LET b == req[p].booking_id IN
            /\ BookingExists(b)
            /\ bookings[b].user_id = req[p].tok.sub
            /\ tours[bookings[b].tour_id].driver_id = req[p].driver_id
            /\ bookings[b].status = "completed"
    ]_vars

ValidationError == Response(422, "validation error")

\* C24: every stored rating has a score in 1..5: a rate_driver request whose
\* score is outside 1..5 is rejected on arrival (the handler only runs with a
\* score in 1..5), and the rejection inserts no rating and leaves the
\* drivers' aggregates unchanged
C24_ScoreInRange ==
    /\ [](\A r \in BagToSet(ratings) : r.rating \in 1..5)
    /\ [](\A p \in Procs :
            (InFlight(p) /\ req[p].op = "rate_driver") => req[p].rating \in 1..5)
    /\ [][\A p \in Procs :
            (Idle(p) /\ resp'[p] = ValidationError /\ resp'[p] # resp[p]) =>
                /\ pc'[p] = "idle"
                /\ ratings' = ratings
                /\ drivers' = drivers
       ]_vars

\* C24 witness: a request was rejected by the validation after a rating of 5
\* was stored; the driver's aggregate is that of the one stored rating
C24_Witness ==
    /\ resp["p1"] = ValidationError
    /\ BagCardinality(ratings) = 1
    /\ \E r \in BagToSet(ratings) : r.driver_id = "d1" /\ r.rating = 5
    /\ drivers["d1"] = [rating2 |-> 10, total_trips |-> 1]

\* --------------------------------------------------------- claims on tours
\* the number of tours the driver of tour t has published
PublishedBy(t) ==
    Cardinality({u \in 1..Len(tours) : tours[u].driver_id = tours[t].driver_id})

\* C25: get_tours lists the tours by ascending number of tours published by
\* the owning driver: of two listed tours whose drivers have published
\* different numbers of tours, the tour of the driver with fewer tours comes
\* first
C25_FewerToursFirst ==
    [][\A p \in Procs :
        (pc[p] = "gt_aggregate" /\ Moved(p)) =>
            LET L == resp'[p].list IN
            \A i, j \in 1..Len(L) :
                (i < j /\ PublishedBy(L[i]) # PublishedBy(L[j])) =>
                    PublishedBy(L[i]) < PublishedBy(L[j])
    ]_vars

\* ------------------------------------------------- claims on seat accounting
RECURSIVE SeatsHeld(_, _)
\* number_of_people summed over the bookings 1..k of tour t whose status is
\* upcoming, paid or completed
SeatsHeld(t, k) ==
    IF k = 0 THEN 0
    ELSE SeatsHeld(t, k - 1)
         + (IF bookings[k].tour_id = t /\ bookings[k].status # "cancelled"
              THEN bookings[k].number_of_people ELSE 0)

\* C26: whenever no booking request is in flight, each tour's
\* current_capacity is the sum of number_of_people over the tour's bookings
\* that are upcoming, paid or completed, after any interleaving of
\* create_booking, cancel_booking and complete_booking
C26_CapacityMatchesBookings ==
    (\A p \in Procs : Idle(p)) =>
        \A t \in 1..Len(tours) : tours[t].current_capacity = SeatsHeld(t, Len(bookings))

\* ------------------------------------- claims on the pickup state machine
\* C27: in every reachable state a pickup request has a driver_id exactly
\* when its status is accepted or completed; pending and cancelled requests
\* have none
C27_DriverIffAcceptedOrCompleted ==
    \A r \in 1..Len(pickups) :
        (pickups[r].driver_id # Null) <=> (pickups[r].status \in {"accepted", "completed"})

\* the changes of status a pickup request may go through
PickupEdges == {<<"pending", "accepted">>, <<"pending", "cancelled">>,
                <<"accepted", "pending">>, <<"accepted", "completed">>}

\* C28: every change of a pickup request's status is one of the edges
\* pending->accepted, pending->cancelled, accepted->pending,
\* accepted->completed; completed and cancelled are terminal
C28_PickupEdgesOnly ==
    [][\A r \in 1..Len(pickups) :
        pickups'[r].status # pickups[r].status =>
            <<pickups[r].status, pickups'[r].status>> \in PickupEdges
    ]_vars

\* C29: when the concurrent rate_driver requests have all finished, every
\* rated driver's total_trips is the number of ratings stored for the driver
\* and the driver's rating is the half-star-rounded mean of all of them
C29_AggregateUpToDate ==
    (\A p \in Procs : Idle(p)) =>
        \A d \in DriverIds :
            LET N == CountRatings(RatingsOf(d), ratings)
                S == SumRatings(RatingsOf(d), ratings)
            IN N > 0 =>
                /\ drivers[d].total_trips = N
                /\ drivers[d].rating2 = RoundedRating2(S, N)

DriverSteps == {"pa_update", "pc_update", "pm_update"}

\* C30: a request accepted by driver D stays assigned to D until D itself
\* cancels or completes it: an accept, cancel or complete by another driver
\* is refused and leaves the accepted request as it is, the driver_id of an
\* accepted request only changes by the cancel of D, and a request is
\* completed by the complete of D with D as its driver_id
C30_AssignmentHeldByAssignee ==
    [][/\ \A p \in Procs :
            LET r == req[p].request_id IN
            (pc[p] \in DriverSteps /\ Moved(p) /\ PickupExists(r)
                /\ pickups[r].status = "accepted"
                /\ pickups[r].driver_id # req[p].tok.sub) =>
                /\ resp'[p].code = 404
                /\ pickups' = pickups
       /\ \A r \in 1..Len(pickups) :
            /\ (pickups[r].status = "accepted"
                  /\ pickups'[r].driver_id # pickups[r].driver_id) =>
                  \E p \in Procs :
                      /\ pc[p] = "pc_update" /\ Moved(p)
                      /\ req[p].request_id = r
                      /\ req[p].tok.sub = pickups[r].driver_id
                      /\ pickups'[r].driver_id = Null
            /\ (pickups[r].status # "completed" /\ pickups'[r].status = "completed") =>
                  \E p \in Procs :
                      /\ pc[p] = "pm_update" /\ Moved(p)
                      /\ req[p].request_id = r
                      /\ pickups[r].driver_id = req[p].tok.sub
                      /\ pickups'[r].driver_id = req[p].tok.sub
            /\ pickups[r].status = "completed" =>
                  pickups'[r].driver_id = pickups[r].driver_id
    ]_vars

\* C30 witness: request 1 is accepted by one driver, and the other slot
\* answered a call on it with a refusal
C30_Witness ==
    /\ Len(pickups) = 1
    /\ pickups[1].status = "accepted" /\ pickups[1].driver_id = "d1"
    /\ resp["p1"] = Accepted(1)
    /\ resp["p2"] = CancelRefused
    /\ \A p \in Procs : pc[p] = "idle"
====
